---- MODULE Spec2Model ----
(***************************************************************************)
(* Model of src/LRUCache.py: class LRUCache(OrderedDict) with put, get and *)
(* update, plus the inherited __delitem__ and __contains__.                *)
(*                                                                         *)
(* The cache object IS the OrderedDict, so its state is one insertion-     *)
(* ordered sequence of (key, value) items, head = oldest position, plus    *)
(* the capacity attribute.                                                 *)
(***************************************************************************)
EXTENDS Integers, Sequences, FiniteSets, TLC

\* ---- bounds of the model ----
NumKeys == 3
MaxVal  == 2
MaxCap  == 3

\* Python's None, as one element of the value domain, distinct from 1..MaxVal
None == 0

Keys       == 1..NumKeys
Values     == {None} \cup (1..MaxVal)
\* capacity is whatever the caller passes to __init__: nothing rejects a
\* negative one, so -1 is a cache the program can construct.
Capacities == {-1} \cup (0..MaxCap)

VARIABLES
    capacity,   \* self.capacity
    od,         \* self (the OrderedDict): sequence of [key, value], head first
    pre,        \* history: od at the start of the last call
    lastOp,     \* history: the last call, its arguments and its outcome
    written,    \* history: resident key -> value of its latest put/update
    touch,      \* history: resident keys by last touch, oldest first
    preTouch    \* history: touch at the start of the last call

vars == <<capacity, od, pre, lastOp, written, touch, preTouch>>

\* ---- OrderedDict primitives ----
Item(k, v) == [key |-> k, value |-> v]

\* list(d.keys())
KeyList(d) == [i \in 1..Len(d) |-> d[i].key]

\* set of keys of d
KeySet(d) == {d[i].key : i \in 1..Len(d)}

\* position of key k in d (k is a key of d)
IndexOf(d, k) == CHOOSE i \in 1..Len(d) : d[i].key = k

\* d[k] for a key k of d
ValueOf(d, k) == d[IndexOf(d, k)].value

\* d without the item of key k, order of the others kept
RECURSIVE Without(_, _)
Without(d, k) ==
    IF d = <<>> THEN <<>>
    ELSE IF Head(d).key = k THEN Without(Tail(d), k)
    ELSE <<Head(d)>> \o Without(Tail(d), k)

PopLast(d) == SubSeq(d, 1, Len(d) - 1)

\* d.popitem(last=False) on a non-empty d: drops the first item
PopFirst(d) == Tail(d)

\* d[k] = v : an existing key keeps its position, a new key goes to the end
SetItemKeepValue(d, k, v) ==
    IF k \in KeySet(d) THEN d ELSE Append(d, Item(k, v))

SetItemAlwaysAppends(d, k, v) == Append(d, Item(k, v))

SetItem(d, k, v) ==
    IF k \in KeySet(d)
    THEN [i \in 1..Len(d) |-> IF d[i].key = k THEN Item(k, v) ELSE d[i]]
    ELSE Append(d, Item(k, v))

MoveToEndBySwap(d, k) ==
    [i \in 1..Len(d) |->
        IF i = IndexOf(d, k) THEN d[Len(d)]
        ELSE IF i = Len(d) THEN d[IndexOf(d, k)]
        ELSE d[i]]

\* d.move_to_end(k, last=True) for a key k of d
MoveToEnd(d, k) == Append(Without(d, k), Item(k, ValueOf(d, k)))

\* OrderedDict.get(k, None)
DictGet(d, k) == IF k \in KeySet(d) THEN ValueOf(d, k) ELSE None

\* ---- LRUCache.put ----
\* the test `len(self) >= self.capacity`
AtCapacityStrict(d, cap) == Len(d) > cap

AtCapacityOneEarly(d, cap) == Len(d) + 1 >= cap

AtCapacity(d, cap) == Len(d) >= cap

\* popitem on an empty dict raises KeyError('dictionary is empty')
PutRaises(d, cap) == AtCapacity(d, cap) /\ d = <<>>

PutResultPresenceFirst(d, cap, k, v) ==
    IF k \in KeySet(d) THEN SetItem(MoveToEnd(d, k), k, v)
    ELSE IF PutRaises(d, cap) THEN d
    ELSE IF AtCapacity(d, cap) THEN SetItem(PopFirst(d), k, v)
    ELSE SetItem(d, k, v)

\* self after put(k, v); a raising put has changed nothing
PutResult(d, cap, k, v) ==
    IF PutRaises(d, cap) THEN d
    ELSE IF AtCapacity(d, cap) THEN SetItem(PopFirst(d), k, v)
    ELSE SetItem(d, k, v)

\* ---- LRUCache.get ----
GetReturn(d, k) == DictGet(d, k)

GetResultInsertsDefault(d, k) ==
    IF DictGet(d, k) # None THEN MoveToEnd(d, k)
    ELSE IF k \in KeySet(d) THEN d ELSE Append(d, Item(k, None))

GetResultMovesToFront(d, k) ==
    IF DictGet(d, k) # None
    THEN <<Item(k, ValueOf(d, k))>> \o Without(d, k)
    ELSE d

GetResult(d, k) ==
    IF DictGet(d, k) # None THEN MoveToEnd(d, k) ELSE d

\* ---- LRUCache.update ----
UpdateRaises(d, cap, k) == k \notin KeySet(d) /\ PutRaises(d, cap)

UpdateResultNoMove(d, cap, k, v) ==
    IF k \notin KeySet(d) THEN PutResult(d, cap, k, v)
    ELSE SetItem(d, k, v)

UpdateResultPlainInsert(d, cap, k, v) ==
    IF k \notin KeySet(d) THEN SetItem(d, k, v)
    ELSE SetItem(MoveToEnd(d, k), k, v)

UpdateResult(d, cap, k, v) ==
    IF k \notin KeySet(d) THEN PutResult(d, cap, k, v)
    ELSE SetItem(MoveToEnd(d, k), k, v)

\* ---- inherited OrderedDict.__delitem__ and __contains__ ----
DelRaises(d, k) == k \notin KeySet(d)

DelResultPopsHead(d, k) == IF k \in KeySet(d) THEN Tail(d) ELSE d

DelResult(d, k) == Without(d, k)

Contains(d, k) == k \in KeySet(d)

\* ---- history bookkeeping ----
Call(o, k, v, r, f, x) ==
    [op |-> o, key |-> k, value |-> v, ret |-> r, found |-> f, raised |-> x]

\* sequence s of keys without k
RECURSIVE SeqWithout(_, _)
SeqWithout(s, k) ==
    IF s = <<>> THEN <<>>
    ELSE IF Head(s) = k THEN SeqWithout(Tail(s), k)
    ELSE <<Head(s)>> \o SeqWithout(Tail(s), k)

\* sequence s of keys restricted to the key set S
RECURSIVE Restrict(_, _)
Restrict(s, S) ==
    IF s = <<>> THEN <<>>
    ELSE IF Head(s) \in S THEN <<Head(s)>> \o Restrict(Tail(s), S)
    ELSE Restrict(Tail(s), S)

\* the touch order after key k was touched and the residents became S
Touched(t, k, S) == Restrict(Append(SeqWithout(t, k), k), S)

\* the latest written values: key k written with v, kept for the residents S
Record(w, k, v, S) ==
    [j \in ((DOMAIN w) \cup {k}) \cap S |-> IF j = k THEN v ELSE w[j]]

\* the latest written values of the residents S
Forget(w, S) == [j \in (DOMAIN w) \cap S |-> w[j]]

\* ---- the state machine ----
\* the history of touches, kept only under SpecTouch
touchVars == <<touch, preTouch>>

Init ==
    /\ capacity \in Capacities
    /\ od = <<>>
    /\ pre = <<>>
    /\ lastOp = Call("init", 1, None, None, FALSE, FALSE)
    /\ written = [j \in {} |-> None]
    /\ touch = <<>>
    /\ preTouch = <<>>

Put(k, v) ==
    /\ od' = PutResult(od, capacity, k, v)
    /\ pre' = od
    /\ lastOp' = Call("put", k, v, None, FALSE, PutRaises(od, capacity))
    /\ written' = IF PutRaises(od, capacity) THEN written
                  ELSE Record(written, k, v, KeySet(od'))
    /\ UNCHANGED capacity

Get(k) ==
    /\ od' = GetResult(od, k)
    /\ pre' = od
    /\ lastOp' = Call("get", k, None, GetReturn(od, k), FALSE, FALSE)
    /\ written' = Forget(written, KeySet(od'))
    /\ UNCHANGED capacity

Update(k, v) ==
    /\ od' = UpdateResult(od, capacity, k, v)
    /\ pre' = od
    /\ lastOp' = Call("update", k, v, None, FALSE, UpdateRaises(od, capacity, k))
    /\ written' = IF UpdateRaises(od, capacity, k) THEN written
                  ELSE Record(written, k, v, KeySet(od'))
    /\ UNCHANGED capacity

Delete(k) ==
    /\ od' = DelResult(od, k)
    /\ pre' = od
    /\ lastOp' = Call("delete", k, None, None, FALSE, DelRaises(od, k))
    /\ written' = Forget(written, KeySet(od'))
    /\ UNCHANGED capacity

ContainsCall(k) ==
    /\ od' = od
    /\ pre' = od
    /\ lastOp' = Call("contains", k, None, None, Contains(od, k), FALSE)
    /\ written' = Forget(written, KeySet(od'))
    /\ UNCHANGED capacity

Next ==
    \/ \E k \in Keys, v \in Values : Put(k, v) /\ UNCHANGED touchVars
    \/ \E k \in Keys : Get(k) /\ UNCHANGED touchVars
    \/ \E k \in Keys, v \in Values : Update(k, v) /\ UNCHANGED touchVars
    \/ \E k \in Keys : Delete(k) /\ UNCHANGED touchVars
    \/ \E k \in Keys : ContainsCall(k) /\ UNCHANGED touchVars

Spec == Init /\ [][Next]_vars

\* the same calls, with the history of touches recorded: a put or update that
\* returned, and a get that returned a value, touch their key
TouchKey(k) ==
    /\ preTouch' = touch
    /\ touch' = IF lastOp'.raised THEN touch ELSE Touched(touch, k, KeySet(od'))

TouchNothing ==
    /\ preTouch' = touch
    /\ touch' = Restrict(touch, KeySet(od'))

PutTouch(k, v) == Put(k, v) /\ TouchKey(k)

GetTouch(k) ==
    Get(k) /\ IF lastOp'.ret # None THEN TouchKey(k) ELSE TouchNothing

UpdateTouch(k, v) == Update(k, v) /\ TouchKey(k)

DeleteTouch(k) == Delete(k) /\ TouchNothing

ContainsTouch(k) == ContainsCall(k) /\ TouchNothing

NextTouch ==
    \/ \E k \in Keys, v \in Values : PutTouch(k, v)
    \/ \E k \in Keys : GetTouch(k)
    \/ \E k \in Keys, v \in Values : UpdateTouch(k, v)
    \/ \E k \in Keys : DeleteTouch(k)
    \/ \E k \in Keys : ContainsTouch(k)

SpecTouch == Init /\ [][NextTouch]_vars

TypeOK ==
    /\ capacity \in Capacities
    /\ \A i \in 1..Len(od) : od[i].key \in Keys /\ od[i].value \in Values
    /\ lastOp.op \in {"init", "put", "get", "update", "delete", "contains"}

\* ---- helpers of the properties ----
LastKey(d) == d[Len(d)].key

\* every key of S is in both dicts with the same value
SameValuesOn(d, e, S) ==
    \A j \in S : j \in KeySet(d) /\ j \in KeySet(e) /\ ValueOf(d, j) = ValueOf(e, j)

IsWrite == lastOp.op \in {"put", "update"}

\* ---- C1 ----
\* C1: for every capacity >= 0 the number of resident entries is at most the
\* capacity after every put, get, update, delete and contains call, whether
\* the call returned or raised; with capacity 0 the cache is always empty.
CapacityBound ==
    capacity >= 0 => (Len(od) <= capacity /\ (capacity = 0 => od = <<>>))

\* a put of a new key into a full cache has evicted and the cache is full again
CapacityBoundWitness ==
    /\ lastOp.op = "put"
    /\ capacity >= 2
    /\ Len(pre) = capacity
    /\ lastOp.key \notin KeySet(pre)
    /\ Len(od) = capacity

\* ---- C2 ----
\* C2: with capacity >= 1, after put(K, V) the key K is the last key of
\* keys(), whether K was absent or already resident before the call.
RecencyAfterPut ==
    (lastOp.op = "put" /\ capacity >= 1) =>
        (od # <<>> /\ LastKey(od) = lastOp.key)

\* ---- C3 ----
\* C3: whenever a put or update removes a key other than by overwriting, the
\* removed key is the resident key whose last touch (put, update, or get
\* that returned its value) is the oldest among the residents at the start
\* of the call.
EvictionTarget ==
    IsWrite =>
        \A e \in KeySet(pre) \ KeySet(od) :
            preTouch # <<>> /\ e = Head(preTouch)

\* ---- C4 ----
\* C4: with capacity 0, put(K, V) returns normally, stores nothing, leaves
\* the size at 0, and a following get(K) returns None.
ZeroCapacityPut ==
    (capacity = 0 /\ lastOp.op = "put") =>
        (~lastOp.raised /\ Len(od) = 0 /\ GetReturn(od, lastOp.key) = None)

\* ---- C5 ----
\* C5: put(K, V) on a resident key K removes no entry: the set of resident
\* keys and the size are the same before and after the call, and the values
\* of the other keys are unchanged.
OverwriteNeverEvicts ==
    (lastOp.op = "put" /\ lastOp.key \in KeySet(pre)) =>
        /\ KeySet(od) = KeySet(pre)
        /\ Len(od) = Len(pre)
        /\ SameValuesOn(od, pre, KeySet(pre) \ {lastOp.key})

\* ---- C6 ----
\* C6: get(K) on a resident key K, whatever value is stored under it (None
\* included), returns the stored value, makes K the last key of keys(), and
\* changes neither the set of resident keys nor any stored value.
SuccessfulGetPromotes ==
    (lastOp.op = "get" /\ lastOp.key \in KeySet(pre)) =>
        /\ lastOp.ret = ValueOf(pre, lastOp.key)
        /\ LastKey(od) = lastOp.key
        /\ KeySet(od) = KeySet(pre)
        /\ SameValuesOn(od, pre, KeySet(pre))

\* ---- C7 ----
\* C7: get(K) on an absent key returns None and leaves the whole cache (keys,
\* order, values, size) as it was; contains(K) on any key leaves the whole
\* cache as it was.
NoGhostState ==
    /\ (lastOp.op = "get" /\ lastOp.key \notin KeySet(pre)) =>
           (lastOp.ret = None /\ ~lastOp.raised /\ od = pre)
    /\ (lastOp.op = "contains") =>
           (od = pre /\ ~lastOp.raised /\ lastOp.found = (lastOp.key \in KeySet(pre)))

\* a get of an absent key on a cache that holds two or more entries
NoGhostStateWitness ==
    /\ lastOp.op = "get"
    /\ lastOp.key \notin KeySet(pre)
    /\ Len(pre) >= 2
    /\ od = pre

\* ---- C8 ----
\* C8: with capacity >= 1, a get(K) issued right after put(K, V) or
\* update(K, V) returns V, also when K was the head of a full cache; and in
\* every state get(K) on a resident K returns the value of the latest
\* put/update of K.
RoundTrip ==
    /\ (IsWrite /\ capacity >= 1) => GetReturn(od, lastOp.key) = lastOp.value
    /\ \A k \in KeySet(od) :
           k \in DOMAIN written /\ GetReturn(od, k) = written[k]

\* put(K, V) where K was the head of a full cache, with another value
RoundTripWitness ==
    /\ lastOp.op = "put"
    /\ capacity >= 2
    /\ Len(pre) = capacity
    /\ Head(pre).key = lastOp.key
    /\ Head(pre).value # lastOp.value
    /\ GetReturn(od, lastOp.key) = lastOp.value

\* ---- C9 ----
\* C9: update(K, V) on a resident key K returns normally, sets K's value to
\* V, makes K the last key of keys(), keeps the set of resident keys and the
\* size, and leaves every other key's value unchanged.
UpdateResident ==
    (lastOp.op = "update" /\ lastOp.key \in KeySet(pre)) =>
        /\ ~lastOp.raised
        /\ ValueOf(od, lastOp.key) = lastOp.value
        /\ LastKey(od) = lastOp.key
        /\ KeySet(od) = KeySet(pre)
        /\ Len(od) = Len(pre)
        /\ SameValuesOn(od, pre, KeySet(pre) \ {lastOp.key})

\* update of the head of a full cache of two or more entries, new value
UpdateResidentWitness ==
    /\ lastOp.op = "update"
    /\ capacity >= 2
    /\ Len(pre) = capacity
    /\ Head(pre).key = lastOp.key
    /\ Head(pre).value # lastOp.value
    /\ LastKey(od) = lastOp.key

\* ---- C10 ----
\* C10: update(K, V) on a key K that is not resident leaves the cache in
\* exactly the state put(K, V) would leave it in, and raises exactly when
\* put(K, V) would raise.
UpdateAbsentEqualsPut ==
    (lastOp.op = "update" /\ lastOp.key \notin KeySet(pre)) =>
        /\ od = PutResult(pre, capacity, lastOp.key, lastOp.value)
        /\ lastOp.raised = PutRaises(pre, capacity)

\* update of an absent key on a full cache: the head was evicted
UpdateAbsentEqualsPutWitness ==
    /\ lastOp.op = "update"
    /\ lastOp.key \notin KeySet(pre)
    /\ capacity >= 2
    /\ Len(pre) = capacity
    /\ KeyList(od) = Append(Tail(KeyList(pre)), lastOp.key)

\* ---- C11 ----
\* C11: del cache[K] on a resident key K returns normally and removes K only:
\* get(K) and contains(K) then report absence, every other key stays resident
\* with its value and in the same relative order; and a put of a new key at
\* size < capacity appends it and evicts nothing.
DeletionCorrectness ==
    /\ (lastOp.op = "delete" /\ lastOp.key \in KeySet(pre)) =>
           /\ ~lastOp.raised
           /\ GetReturn(od, lastOp.key) = None
           /\ ~Contains(od, lastOp.key)
           /\ KeyList(od) = SeqWithout(KeyList(pre), lastOp.key)
           /\ SameValuesOn(od, pre, KeySet(pre) \ {lastOp.key})
    /\ (lastOp.op = "put" /\ lastOp.key \notin KeySet(pre) /\ Len(pre) < capacity) =>
           od = Append(pre, Item(lastOp.key, lastOp.value))

\* the middle key of a cache of three entries was deleted
DeletionCorrectnessWitness ==
    /\ lastOp.op = "delete"
    /\ Len(pre) = 3
    /\ pre[2].key = lastOp.key
    /\ KeyList(od) = <<pre[1].key, pre[3].key>>

\* ---- C12 ----
\* C12: deleting a key that is not resident returns normally and leaves the
\* resident keys, their order, their values and the size unchanged.
DeleteAbsentIsNoOp ==
    (lastOp.op = "delete" /\ lastOp.key \notin KeySet(pre)) =>
        (~lastOp.raised /\ od = pre)

\* ---- C13 ----
\* C13: no cache with a negative capacity exists: construction with
\* capacity < 0 fails, so every constructed cache has capacity >= 0.
NegativeCapacityRejected == capacity >= 0

\* ---- C14 ----
\* C14: with capacity >= 1 every put, get and update call returns normally;
\* put never pops from an empty cache.
NoFailureWithCapacity ==
    (capacity >= 1 /\ lastOp.op \in {"put", "get", "update"}) =>
        /\ ~lastOp.raised
        /\ (IsWrite /\ pre = <<>>) => Len(od) = 1

\* a put into the empty cache of capacity 1 has stored its key
NoFailureWithCapacityWitness ==
    /\ lastOp.op = "put"
    /\ capacity = 1
    /\ pre = <<>>
    /\ ~lastOp.raised
    /\ KeyList(od) = <<lastOp.key>>

\* ---- C15 ----
\* C15: get(K) on a resident key K with a value other than None leaves the
\* relative order of the other keys unchanged and puts K last, changes no
\* value, and a second get(K) right after it changes nothing more.
IdempotentLookup ==
    (/\ lastOp.op = "get"
     /\ lastOp.key \in KeySet(pre)
     /\ ValueOf(pre, lastOp.key) # None) =>
        /\ KeyList(od) = Append(SeqWithout(KeyList(pre), lastOp.key), lastOp.key)
        /\ SameValuesOn(od, pre, KeySet(pre))
        /\ GetResult(od, lastOp.key) = od
        /\ GetReturn(od, lastOp.key) = lastOp.ret

\* get of the middle key of three, which holds a value other than None
IdempotentLookupWitness ==
    /\ lastOp.op = "get"
    /\ Len(pre) = 3
    /\ pre[2].key = lastOp.key
    /\ lastOp.ret # None
    /\ KeyList(od) = <<pre[1].key, pre[3].key, lastOp.key>>

\* ---- C16 ----
\* C16: a put or update removes at most one entry other than the key it
\* writes; the removed entry is the head of the order at the start of the
\* call and the cache held at least capacity entries then; a put of a new key
\* at size < capacity removes nothing and increases the size by exactly 1.
EvictionExactness ==
    /\ IsWrite =>
           LET removed == (KeySet(pre) \ KeySet(od)) \ {lastOp.key}
           IN  /\ Cardinality(removed) <= 1
               /\ \A e \in removed :
                      e = Head(pre).key /\ Len(pre) >= capacity
    /\ (lastOp.op = "put" /\ lastOp.key \notin KeySet(pre) /\ Len(pre) < capacity) =>
           /\ KeySet(od) = KeySet(pre) \cup {lastOp.key}
           /\ Len(od) = Len(pre) + 1

\* a write of a new key to a full cache of two or more entries removed the head
EvictionExactnessWitness ==
    /\ IsWrite
    /\ Len(pre) >= 2
    /\ Len(pre) = capacity
    /\ lastOp.key \notin KeySet(pre)
    /\ KeySet(pre) \ KeySet(od) = {Head(pre).key}

\* ---- C17 ----
\* C17: put(K, V) on a cache holding exactly capacity >= 1 entries removes the
\* head before looking at K. A resident K that is not the head keeps its
\* position with value V while the head is evicted and the size becomes
\* capacity - 1; a K that is the head is removed and re-inserted last with
\* value V and the size stays capacity.
EvictFirstPut ==
    (/\ lastOp.op = "put"
     /\ capacity >= 1
     /\ Len(pre) = capacity
     /\ lastOp.key \in KeySet(pre)) =>
        IF Head(pre).key = lastOp.key
        THEN /\ od = Append(Tail(pre), Item(lastOp.key, lastOp.value))
             /\ Len(od) = capacity
        ELSE /\ KeyList(od) = Tail(KeyList(pre))
             /\ Len(od) = capacity - 1
             /\ ValueOf(od, lastOp.key) = lastOp.value
             /\ SameValuesOn(od, pre, KeySet(od) \ {lastOp.key})

\* put on the last key of a full cache of three: the head went, the key stayed
EvictFirstPutWitness ==
    /\ lastOp.op = "put"
    /\ capacity = 3
    /\ Len(pre) = 3
    /\ pre[3].key = lastOp.key
    /\ pre[3].value # lastOp.value
    /\ KeyList(od) = <<pre[2].key, lastOp.key>>

\* ---- C18 ----
\* C18: after every call the order holds no key twice, and the keys of the
\* order are exactly the keys that have a stored (written) value, as many
\* as the order is long.
StructuralConsistency ==
    /\ \A i, j \in 1..Len(od) : od[i].key = od[j].key => i = j
    /\ Cardinality(KeySet(od)) = Len(od)
    /\ DOMAIN written = KeySet(od)

\* a resident key of a cache that is not full was overwritten by put
StructuralConsistencyWitness ==
    /\ lastOp.op = "put"
    /\ lastOp.key \in KeySet(pre)
    /\ Len(pre) >= 2
    /\ Len(pre) < capacity
    /\ Len(od) = Len(pre)

\* ---- C19 ----
\* C19: for every put(K, V), update(K, V) and get(K), the keys other than K
\* that are resident before and after the call keep their relative order and
\* their values.
UntouchedOrderPreserved ==
    (lastOp.op \in {"put", "update", "get"}) =>
        LET S == (KeySet(pre) \cap KeySet(od)) \ {lastOp.key}
        IN  /\ Restrict(KeyList(pre), S) = Restrict(KeyList(od), S)
            /\ SameValuesOn(od, pre, S)

\* the head of three was moved to the end; the two others kept their order
UntouchedOrderPreservedWitness ==
    /\ lastOp.op \in {"update", "get"}
    /\ Len(pre) = 3
    /\ pre[1].key = lastOp.key
    /\ KeyList(od) = <<pre[2].key, pre[3].key, lastOp.key>>
====
